---- MODULE Spec2Model ----
(***************************************************************************)
(* apple-invoice-pdf: model of the invoice intake pipeline of main.go      *)
(* (release 1.2.0): the filter predicate, the two-pass IMAP scan, the MIME *)
(* HTML extraction and the HTML clean-up.                                  *)
(*                                                                         *)
(* Strings are sequences of one-character strings, so that comparison,     *)
(* lower-casing and substring search are computed as the code computes     *)
(* them.                                                                   *)
(***************************************************************************)
EXTENDS Integers, Sequences, FiniteSets, TLC

VARIABLES
    flt,        \* harness of matchesFilter: arguments, clock, result
    ext,        \* harness of extractHTMLBody: the message reader, result
    cln,        \* harness of cleanHTML: input document, first and second output
    onr,        \* harness of extractOrderNumber: input document, result
    san,        \* harness of sanitizeFilename: input string, result
    lcf,        \* harness of loadConfig: the file, result
    chn,        \* harness of the fetch goroutine and its consumer loop
    cfg,        \* *Config as used by fetchInvoices (Filter.Count/Subject/From)
    now,        \* time.Now() as seen by matchesFilter during the scan
    mailbox,    \* the INBOX on the server: sequence of messages by sequence number
    seen,       \* uids of the messages carrying the \Seen flag on the server
    seen0,      \* the \Seen flags before the run (history variable)
    pc,         \* position of fetchInvoices
    readOnly,   \* the read-only argument of c.Select, once issued
    total,      \* mbox.Messages as observed by c.Select
    seqSet,     \* the range handed to seqSet.AddRange(from, mbox.Messages)
    requests,   \* the FETCH / UID FETCH commands issued so far
    messages,   \* the buffered channel between c.Fetch and the consumer loop
    chOpen,     \* FALSE once the fetch closed the channel
    done,       \* the done channel: <<>> or <<status>>
    answered,   \* the requested messages answered in the current fetch
    sent,       \* the responses of pass 2 in the order of delivery (history)
    extras,     \* responses of the server beyond one per requested message
    uids,       \* fetchMatchingUIDs: the candidate list
    invoices,   \* fetchBodies: the documents collected so far
    warnings,   \* warning-class log events of the scan
    failed,     \* transport-level failures that occurred (history variable)
    result,     \* what fetchInvoices returned: [invoices, err]
    outcomes,   \* main: what became of each document processed so far (history)
    attachments,\* main: the PDF attachments collected so far
    mails       \* the calls of sendPDFEmail: the attachments handed over

vars == <<flt, ext, cln, onr, san, lcf, chn, cfg, now, mailbox, seen, seen0, pc, readOnly, total,
          seqSet, requests, messages, chOpen, done, answered, sent, extras,
          uids, invoices, warnings, failed, result, outcomes, attachments,
          mails>>

scanVars == <<cfg, now, mailbox, seen, seen0, pc, readOnly, total, seqSet,
              requests, messages, chOpen, done, answered, sent, extras,
              uids, invoices, warnings, failed, result, outcomes,
              attachments, mails>>

(***************************************************************************)
(* Strings                                                                 *)
(***************************************************************************)
\* unicode.ToLower on the characters of the model's alphabet
LowerChar(c) ==
    CASE c = "A" -> "a"
      [] c = "P" -> "p"
      [] c = "S" -> "s"
      [] OTHER -> c

\* strings.ToLower
ToLower(s) == [i \in 1..Len(s) |-> LowerChar(s[i])]

\* strings.Contains(s, substr)
Contains(s, substr) ==
    \E i \in 0..(Len(s) - Len(substr)) :
        SubSeq(s, i + 1, i + Len(substr)) = substr

(***************************************************************************)
(* Filter predicate (matchesFilter)                                        *)
(***************************************************************************)
MaxFrom == 2

SeqsUpTo(S, n) == UNION {[1..k -> S] : k \in 0..n}

Subjects == {<<"s", "a">>, <<"S", "a">>}
HostNames == {<<"a", "p">>, <<"x", "A", "P">>, <<"a", "x", "p">>, <<"p">>, <<>>}
FilterFroms == {<<"a", "p">>, <<"A", "p">>, <<"p", "x">>}
Years == {2025, 2026}
Months == {1, 2}
Dates == [year : Years, month : Months]

\* for _, addr := range env.From { if Contains(lower(host), lower(from)) { return true } }
\* return false
RECURSIVE SenderLoop(_, _, _)
SenderLoop(from, i, filterFrom) ==
    IF i > Len(from) THEN FALSE
    ELSE IF Contains(ToLower(from[i].HostName), ToLower(filterFrom)) THEN TRUE
    ELSE SenderLoop(from, i + 1, filterFrom)

\* mutant: the host name is compared without lower-casing
matchesFilter_CaseSensitive(env, c, t) ==
    IF env.Date.year # t.year \/ env.Date.month # t.month THEN FALSE
    ELSE IF env.Subject # c.Filter.Subject THEN FALSE
    ELSE \E i \in 1..Len(env.From) : Contains(env.From[i].HostName, c.Filter.From)

matchesFilter(env, c, t) ==
    IF env.Date.year # t.year \/ env.Date.month # t.month THEN FALSE
    ELSE IF env.Subject # c.Filter.Subject THEN FALSE
    ELSE SenderLoop(env.From, 1, c.Filter.From)

IdleFlt == [pc |-> "idle"]
IdleExt == [pc |-> "idle"]
IdleCln == [pc |-> "idle"]
IdleOnr == [pc |-> "idle"]
IdleSan == [pc |-> "idle"]
IdleLcf == [pc |-> "idle"]
IdleChn == [pc |-> "idle"]

\* the scan machine parked: used by the harnesses of the pure functions
ScanIdle ==
    /\ cfg = [Filter |-> [Count |-> [hi |-> 0, lo |-> 0], Subject |-> <<>>, From |-> <<>>]]
    /\ now = [year |-> 2026, month |-> 1]
    /\ mailbox = <<>>
    /\ seen = {}
    /\ seen0 = {}
    /\ pc = "idle"
    /\ readOnly = FALSE
    /\ total = 0
    /\ seqSet = <<>>
    /\ requests = <<>>
    /\ messages = <<>>
    /\ chOpen = FALSE
    /\ done = <<>>
    /\ answered = {}
    /\ sent = <<>>
    /\ extras = 0
    /\ uids = <<>>
    /\ invoices = <<>>
    /\ warnings = <<>>
    /\ failed = {}
    /\ result = [state |-> "none"]
    /\ outcomes = <<>>
    /\ attachments = <<>>
    /\ mails = <<>>

InitFilter ==
    /\ flt \in [pc : {"call"},
                env : [Subject : Subjects,
                       From : SeqsUpTo([HostName : HostNames], MaxFrom),
                       Date : Dates],
                cfg : [Filter : [Subject : Subjects, From : FilterFroms]],
                now : Dates,
                ret : {FALSE}]
    /\ ext = IdleExt
    /\ cln = IdleCln
    /\ onr = IdleOnr
    /\ san = IdleSan
    /\ lcf = IdleLcf
    /\ chn = IdleChn
    /\ ScanIdle

\* one call of matchesFilter(env, cfg); time.Now() is read inside the call
CallMatchesFilter ==
    /\ flt.pc = "call"
    /\ flt' = [flt EXCEPT !.pc = "done",
                          !.ret = matchesFilter(flt.env, flt.cfg, flt.now)]
    /\ UNCHANGED <<ext, cln, onr, san, lcf, chn, scanVars>>

NextFilter == CallMatchesFilter

SpecFilter == InitFilter /\ [][NextFilter]_vars

\* case-insensitive substring, stated position by position
HostHasDomain(host, dom) ==
    \E off \in 0..(Len(host) - Len(dom)) :
        \A k \in 1..Len(dom) : LowerChar(host[off + k]) = LowerChar(dom[k])

SubjectEqual(a, b) ==
    /\ Len(a) = Len(b)
    /\ \A k \in 1..Len(a) : a[k] = b[k]

\* C1: matchesFilter returns true iff the subject equals the filter subject
\* (case-sensitive), some sender host name contains the filter domain
\* case-insensitively, and the message date has the year and month of now;
\* an empty sender list never matches.
C1_FilterIffAllThree ==
    flt.pc = "done" =>
        /\ flt.ret <=>
              /\ SubjectEqual(flt.env.Subject, flt.cfg.Filter.Subject)
              /\ \E i \in 1..Len(flt.env.From) :
                     HostHasDomain(flt.env.From[i].HostName, flt.cfg.Filter.From)
              /\ flt.env.Date.year = flt.now.year
              /\ flt.env.Date.month = flt.now.month
        /\ (flt.env.From = <<>> => ~flt.ret)

\* a match that needs the case-insensitive comparison, on the second sender
C1_Witness ==
    /\ flt.pc = "done"
    /\ flt.ret
    /\ Len(flt.env.From) = 2
    /\ ~HostHasDomain(flt.env.From[1].HostName, flt.cfg.Filter.From)
    /\ ~Contains(flt.env.From[2].HostName, flt.cfg.Filter.From)

(***************************************************************************)
(* Content extractor (extractHTMLBody)                                     *)
(*                                                                         *)
(* A message body is what mail.CreateReader / NextPart make of it:         *)
(* createErr when the reader cannot be created, else the sequence of parts *)
(* NextPart yields before io.EOF.  A part is "inline" (mail.InlineHeader), *)
(* "attachment" (mail.AttachmentHeader) or "bad" (NextPart returns an      *)
(* error there).  ct is the media type h.ContentType reports, readErr      *)
(* whether io.ReadAll of p.Body fails.                                     *)
(***************************************************************************)
MaxParts == 3

PartKinds == {"inline", "attachment"}
ContentTypes == {"text/html", "text/plain"}
Bodies == {"b1", "b2"}
BadPart == [kind |-> "bad", ct |-> "", body |-> "", readErr |-> FALSE]
Parts == [kind : PartKinds, ct : ContentTypes, body : Bodies, readErr : BOOLEAN]
             \cup {BadPart}
Readers == {[createErr |-> TRUE, parts |-> <<>>]}
               \cup [createErr : {FALSE}, parts : SeqsUpTo(Parts, MaxParts)]

ErrCreate == "creating mail reader"
ErrPart == "reading mail part"
ErrRead == "reading HTML body"
ErrNotFound == "no text/html part found"
Fail(e) == [err |-> e, html |-> ""]
Ok(b) == [err |-> "nil", html |-> b]

\* mutant: the header type is not inspected, any text/html part is taken
RECURSIVE PartLoop_AnyHeader(_, _)
PartLoop_AnyHeader(parts, i) ==
    IF i > Len(parts) THEN Fail(ErrNotFound)
    ELSE IF parts[i].kind = "bad" THEN Fail(ErrPart)
    ELSE IF parts[i].ct = "text/html"
         THEN (IF parts[i].readErr THEN Fail(ErrRead) ELSE Ok(parts[i].body))
    ELSE PartLoop_AnyHeader(parts, i + 1)

\* the for loop over mr.NextPart()
RECURSIVE PartLoop(_, _)
PartLoop(parts, i) ==
    IF i > Len(parts) THEN Fail(ErrNotFound)
    ELSE IF parts[i].kind = "bad" THEN Fail(ErrPart)
    ELSE IF parts[i].kind = "inline" /\ parts[i].ct = "text/html"
         THEN (IF parts[i].readErr THEN Fail(ErrRead) ELSE Ok(parts[i].body))
    ELSE PartLoop(parts, i + 1)

extractHTMLBody(r) ==
    IF r.createErr THEN Fail(ErrCreate) ELSE PartLoop(r.parts, 1)

InitExtract ==
    /\ ext \in [pc : {"call"}, r : Readers, ret : {Fail("")}]
    /\ flt = IdleFlt
    /\ cln = IdleCln
    /\ onr = IdleOnr
    /\ san = IdleSan
    /\ lcf = IdleLcf
    /\ chn = IdleChn
    /\ ScanIdle

CallExtractHTMLBody ==
    /\ ext.pc = "call"
    /\ ext' = [ext EXCEPT !.pc = "done", !.ret = extractHTMLBody(ext.r)]
    /\ UNCHANGED <<flt, cln, onr, san, lcf, chn, scanVars>>

NextExtract == CallExtractHTMLBody

SpecExtract == InitExtract /\ [][NextExtract]_vars

\* the body can be read to the end without a structural or read failure
WellFormed(r) ==
    /\ ~r.createErr
    /\ \A i \in 1..Len(r.parts) : r.parts[i].kind # "bad" /\ ~r.parts[i].readErr

IsHtml(part) == part.kind # "bad" /\ part.ct = "text/html"
IsInlineHtml(part) == part.kind = "inline" /\ part.ct = "text/html"

Skipped(r, n) ==
    \A j \in 1..(n - 1) : r.parts[j].kind # "bad" /\ ~IsInlineHtml(r.parts[j])

MaxNodes == 3
MaxDepth == 3

UrlA == <<"http", "s://cdn/a.png">>
UrlB == <<"http", "://cdn/b.gif">>
DataSrc == <<"data:", "image/gif", ";base64,", "R0lG">>
NoStr == <<>>

El(tag, id, class, style, text, src) ==
    [depth |-> 1, tag |-> tag, id |-> id, class |-> class, style |-> style,
     text |-> text, src |-> src]

Templates ==
    {El("div", "", {}, NoStr, NoStr, NoStr),
     El("div", "footer_section", {}, NoStr, NoStr, NoStr),
     El("div", "", {"footer-copy"}, NoStr, NoStr, NoStr),
     El("div", "", {"action-button-cell"}, NoStr, <<"Click">>, NoStr),
     El("div", "", {"custom-1sstyyn"}, NoStr, <<"Help">>, NoStr),
     El("div", "", {"inline-link-group"}, NoStr, <<"Privacy">>, NoStr),
     El("p", "", {}, NoStr, <<"Intro">>, NoStr),
     El("p", "", {}, <<"color:red">>, <<"UID-Nr", ": ATU1">>, NoStr),
     El("img", "", {}, NoStr, NoStr, UrlA),
     El("img", "", {}, NoStr, NoStr, UrlB),
     El("img", "", {}, NoStr, NoStr, DataSrc)}

\* the depths at which an element may follow d: a child of a <div>, or a
\* sibling of an element on the path to the last element
NextDepths(d) ==
    IF d = <<>> THEN {1}
    ELSE {k \in 1..MaxDepth :
              /\ k <= d[Len(d)].depth + 1
              /\ k = d[Len(d)].depth + 1 => d[Len(d)].tag = "div"}

RECURSIVE DocsOfLen(_)
DocsOfLen(n) ==
    IF n = 0 THEN {<<>>}
    ELSE UNION {{Append(d, [t EXCEPT !.depth = k]) :
                     t \in Templates, k \in NextDepths(d)} : d \in DocsOfLen(n - 1)}

DocsUpTo(m) == UNION {DocsOfLen(n) : n \in 0..m}

\* the element i hangs below (0: directly below <body>)
Parent(d, i) ==
    IF d[i].depth = 1 THEN 0
    ELSE CHOOSE j \in 1..(i - 1) :
             /\ d[j].depth = d[i].depth - 1
             /\ \A k \in (j + 1)..(i - 1) : d[k].depth >= d[i].depth

\* i is r or a descendant of r
InSubtree(d, r, i) ==
    i >= r /\ \A k \in (r + 1)..i : d[k].depth > d[r].depth

\* s.Text(): the text of the element and its descendants
RECURSIVE TextFrom(_, _, _)
TextFrom(d, r, i) ==
    IF i > Len(d) \/ ~InSubtree(d, r, i) THEN <<>>
    ELSE d[i].text \o TextFrom(d, r, i + 1)
Text(d, r) == TextFrom(d, r, r)

\* Selection.Remove(): the selected elements go with their subtrees
RECURSIVE Keep(_, _, _)
Keep(d, gone, i) ==
    IF i > Len(d) THEN <<>>
    ELSE (IF \E r \in gone : InSubtree(d, r, i) THEN <<>> ELSE <<d[i]>>)
         \o Keep(d, gone, i + 1)
Remove(d, sel) == Keep(d, sel, 1)

\* Selection.First()
First(sel) == IF sel = {} THEN {} ELSE {CHOOSE i \in sel : \A j \in sel : i <= j}

\* doc.Find(".class")
FindClass(d, c) == {i \in 1..Len(d) : c \in d[i].class}
\* doc.Find("#footer_section > p")
FindFooterP(d) ==
    {i \in 1..Len(d) : /\ d[i].tag = "p"
                       /\ Parent(d, i) # 0
                       /\ d[Parent(d, i)].id = "footer_section"}
\* doc.Find("#footer_section > .custom-1sstyyn")
FindFooterHelp(d) ==
    {i \in 1..Len(d) : /\ "custom-1sstyyn" \in d[i].class
                       /\ Parent(d, i) # 0
                       /\ d[Parent(d, i)].id = "footer_section"}
\* doc.Find(".footer-copy p")
FindFooterCopyP(d) ==
    {i \in 1..Len(d) : /\ d[i].tag = "p"
                       /\ \E a \in 1..(i - 1) :
                              InSubtree(d, a, i) /\ "footer-copy" \in d[a].class}

\* strings.HasPrefix
HasPrefix(s, prefix) ==
    Len(s) >= Len(prefix) /\ SubSeq(s, 1, Len(prefix)) = prefix

\* base64.StdEncoding.EncodeToString of the data the server holds for a URL
Base64Data(imgURL) == IF imgURL = UrlA THEN "QUJD" ELSE "QkNE"

\* mutant: a response without Content-Type gives a data URI without media type
embedImage_NoDefaultMime(imgURL, net) ==
    IF net[imgURL] = "fail" THEN [err |-> "get", uri |-> <<>>]
    ELSE [err |-> "nil",
          uri |-> <<"data:", net[imgURL], ";base64,", Base64Data(imgURL)>>]

\* embedImage: http.Get, then the data URI; net gives the outcome of the
\* request for each URL: "fail" (http.Get or io.ReadAll returns an error),
\* or the Content-Type of the response
embedImage(imgURL, net) ==
    IF net[imgURL] = "fail" THEN [err |-> "get", uri |-> <<>>]
    ELSE [err |-> "nil",
          uri |-> <<"data:", IF net[imgURL] = "" THEN "image/png" ELSE net[imgURL],
                    ";base64,", Base64Data(imgURL)>>]

\* doc.Find("img").Each(...)
EmbedImages(d, net) ==
    [i \in 1..Len(d) |->
        IF d[i].tag = "img" /\ d[i].src # NoStr /\ HasPrefix(d[i].src, <<"http">>)
              /\ embedImage(d[i].src, net).err = "nil"
        THEN [d[i] EXCEPT !.src = embedImage(d[i].src, net).uri]
        ELSE d[i]]

\* doc.Find(".footer-copy p").Each(...)
BoldUID(d) ==
    [i \in 1..Len(d) |->
        IF i \in FindFooterCopyP(d) /\ Contains(Text(d, i), <<"UID-Nr">>)
        THEN [d[i] EXCEPT !.style = <<"font-weight:600">>]
        ELSE d[i]]

cleanHTML(htmlContent, net) ==
    LET d1 == EmbedImages(htmlContent, net)
        d2 == Remove(d1, FindClass(d1, "action-button-cell"))
        d3 == Remove(d2, First(FindFooterP(d2)))
        d4 == Remove(d3, FindFooterHelp(d3))
        d5 == BoldUID(d4)
        d6 == Remove(d5, FindClass(d5, "inline-link-group"))
    IN [err |-> "nil", html |-> d6]

Nets == [{UrlA, UrlB} -> {"fail", "", "image/jpeg"}]

InitClean ==
    /\ cln \in [pc : {"call"}, doc : DocsUpTo(MaxNodes), net : Nets,
                out1 : {[err |-> "nil", html |-> <<>>]},
                out2 : {[err |-> "nil", html |-> <<>>]}]
    /\ flt = IdleFlt
    /\ ext = IdleExt
    /\ onr = IdleOnr
    /\ san = IdleSan
    /\ lcf = IdleLcf
    /\ chn = IdleChn
    /\ ScanIdle

\* cleaned, err := cleanHTML(doc)
CleanOnce ==
    /\ cln.pc = "call"
    /\ cln' = [cln EXCEPT !.pc = "once", !.out1 = cleanHTML(cln.doc, cln.net)]
    /\ UNCHANGED <<flt, ext, onr, san, lcf, chn, scanVars>>

\* cleanHTML applied to its own output
CleanAgain ==
    /\ cln.pc = "once"
    /\ cln.out1.err = "nil"
    /\ cln' = [cln EXCEPT !.pc = "twice",
                          !.out2 = cleanHTML(cln.out1.html, cln.net)]
    /\ UNCHANGED <<flt, ext, onr, san, lcf, chn, scanVars>>

NextClean == CleanOnce \/ CleanAgain

SpecClean == InitClean /\ [][NextClean]_vars

\* no image source is left that begins with the external scheme
FullyInlined(d) ==
    \A i \in 1..Len(d) : d[i].tag = "img" => ~HasPrefix(d[i].src, <<"http">>)

\* C10: cleanHTML applied to its own fully-inlined output gives the same
\* document again.
C10_Idempotent ==
    (cln.pc = "twice" /\ FullyInlined(cln.out1.html)) =>
        cln.out2 = cln.out1

\* an image element whose source begins with the external scheme
External(e) == e.tag = "img" /\ HasPrefix(e.src, <<"http">>)

\* the source an image element is due after the transform
InlinedSrc(e, net) ==
    IF ~External(e) \/ net[e.src] = "fail" THEN e.src
    ELSE <<"data:", IF net[e.src] = "" THEN "image/png" ELSE net[e.src],
           ";base64,", Base64Data(e.src)>>

InlinedDoc(d, net) == [i \in 1..Len(d) |-> [d[i] EXCEPT !.src = InlinedSrc(d[i], net)]]

NetDown == [u \in {UrlA, UrlB} |-> "fail"]

\* C11: the image step gives every external image the data URI of its own
\* response (media type of the response, image/png when it has none) and
\* leaves it as it was when its request fails; every other element and
\* every other image source stays; the transform never fails on an image,
\* and its result is that of the transform without network on the document
\* with the sources so replaced.
C11_ImagesInlined ==
    cln.pc \in {"once", "twice"} =>
        /\ EmbedImages(cln.doc, cln.net) = InlinedDoc(cln.doc, cln.net)
        /\ cln.out1.err = "nil"
        /\ cln.out1.html = cleanHTML(InlinedDoc(cln.doc, cln.net), NetDown).html

\* two external images in one document: the request of the first fails, the
\* second is inlined with the default media type; a third keeps its data URI
C11_Witness ==
    /\ cln.pc = "once"
    /\ Len(cln.doc) = 3
    /\ cln.doc[1].src = UrlA /\ cln.doc[2].src = UrlB /\ cln.doc[3].src = DataSrc
    /\ cln.net[UrlA] = "fail" /\ cln.net[UrlB] = ""
    /\ Len(cln.out1.html) = 3
    /\ cln.out1.html[1].src = UrlA
    /\ cln.out1.html[2].src = <<"data:", "image/png", ";base64,", "QkNE">>
    /\ cln.out1.html[3].src = DataSrc

\* the chrome of the mail: button containers, help blocks of the footer and
\* link bars
Chrome(d) ==
    FindClass(d, "action-button-cell") \cup FindFooterHelp(d)
        \cup FindClass(d, "inline-link-group")

\* the element that follows the subtree of i, if it is a sibling of i
NextSibling(d, i) ==
    {j \in (i + 1)..Len(d) : /\ d[j].depth = d[i].depth
                              /\ \A k \in (i + 1)..(j - 1) : d[k].depth > d[i].depth}

\* the paragraphs immediately preceding a button container
IntroParagraphs(d) ==
    {i \in 1..Len(d) : /\ d[i].tag = "p"
                        /\ \E j \in NextSibling(d, i) :
                               "action-button-cell" \in d[j].class}

\* a document without the attributes the other steps rewrite
Structure(d) ==
    [i \in 1..Len(d) |-> [depth |-> d[i].depth, tag |-> d[i].tag, id |-> d[i].id,
                           class |-> d[i].class, text |-> d[i].text]]

\* no chrome is left in the result of the transform
ChromeAbsent == cln.pc \in {"once", "twice"} => Chrome(cln.out1.html) = {}

\* C12: the result holds no button container, no help block of the footer
\* and no link bar; beside these only the paragraph immediately preceding
\* the button container is removed, and every other element keeps its place
\* and its text.
C12_OnlyChromeRemoved ==
    cln.pc \in {"once", "twice"} =>
        /\ Chrome(cln.out1.html) = {}
        /\ Structure(cln.out1.html)
               = Structure(Remove(cln.doc, Chrome(cln.doc) \cup IntroParagraphs(cln.doc)))

(***************************************************************************)
(* Order number (extractOrderNumber)                                       *)
(*                                                                         *)
(* Texts are sequences of tokens: the label, a word, or one whitespace     *)
(* character.                                                              *)
(***************************************************************************)
MaxText == 3       \* tokens of text an element holds itself

Label == "Bestellnummer:"
Space == {" ", "\n", "\r", "\t"}
Breaks == {"\n", "\r", "\t"}
Tokens == {Label, "W1", " ", "\n", "\t"}

Div(text) == El("div", "", {}, NoStr, text, NoStr)

\* the documents of the harness: one element, or two of which the second
\* (with a shorter text) is a child or a sibling of the first
OrderDocs(m) ==
    {<<Div(t)>> : t \in SeqsUpTo(Tokens, m)}
        \cup {<<Div(t), [Div(u) EXCEPT !.depth = k]>> :
                  t \in SeqsUpTo(Tokens, m), u \in SeqsUpTo(Tokens, m - 1),
                  k \in {1, 2}}

\* strings.TrimSpace
RECURSIVE TrimLeft(_)
TrimLeft(s) ==
    IF s # <<>> /\ Head(s) \in Space THEN TrimLeft(Tail(s)) ELSE s
RECURSIVE TrimRight(_)
TrimRight(s) ==
    IF s # <<>> /\ s[Len(s)] \in Space THEN TrimRight(SubSeq(s, 1, Len(s) - 1)) ELSE s
TrimSpace(s) == TrimRight(TrimLeft(s))

\* strings.IndexAny(s, "\n\r\t"), counted from 1; 0 when there is none
IndexAny(s, chars) ==
    IF \E i \in 1..Len(s) : s[i] \in chars
    THEN CHOOSE i \in 1..Len(s) : s[i] \in chars /\ \A j \in 1..(i - 1) : s[j] \notin chars
    ELSE 0

\* mutant: the value is not cut at the first line break
TruncateAtBreak_Never(orderNum) == orderNum

\* if idx := strings.IndexAny(orderNum, "\n\r\t"); idx >= 0 { ... }
TruncateAtBreak(orderNum) ==
    IF IndexAny(orderNum, Breaks) > 0
    THEN TrimSpace(SubSeq(orderNum, 1, IndexAny(orderNum, Breaks) - 1))
    ELSE orderNum

\* doc.Find("*"): html and body, whose text is that of the whole document,
\* then the elements below body in document order; s.Text() of each
RECURSIVE AllText(_)
AllText(d) == IF d = <<>> THEN <<>> ELSE Head(d).text \o AllText(Tail(d))
ElementTexts(d) == <<AllText(d), AllText(d)>> \o [i \in 1..Len(d) |-> Text(d, i)]

extractOrderNumber(htmlContent) ==
    LET texts == ElementTexts(htmlContent)
        hits == {k \in 1..Len(texts) : HasPrefix(TrimSpace(texts[k]), <<Label>>)}
    IN IF hits = {} THEN <<>>
       ELSE LET k == CHOOSE h \in hits : \A g \in hits : h <= g
                text == TrimSpace(texts[k])
            IN TruncateAtBreak(TrimSpace(Tail(text)))

InitOrder ==
    /\ onr \in [pc : {"call"}, doc : OrderDocs(MaxText), ret : {<<>>}]
    /\ flt = IdleFlt
    /\ ext = IdleExt
    /\ cln = IdleCln
    /\ san = IdleSan
    /\ lcf = IdleLcf
    /\ chn = IdleChn
    /\ ScanIdle

\* orderNum := extractOrderNumber(inv.HTMLBody)
CallExtractOrderNumber ==
    /\ onr.pc = "call"
    /\ onr' = [onr EXCEPT !.pc = "done", !.ret = extractOrderNumber(onr.doc)]
    /\ UNCHANGED <<flt, ext, cln, san, lcf, chn, scanVars>>

NextOrder == CallExtractOrderNumber

SpecOrder == InitOrder /\ [][NextOrder]_vars

\* the trimmed text of element i begins with the label
Labelled(d, i) ==
    LET t == ElementTexts(d)[i]
    IN \E a \in 1..Len(t) : t[a] = Label /\ \A b \in 1..(a - 1) : t[b] \in Space

\* the trimmed text of the first labelled element (any: no element is)
FirstLabelled(d) ==
    LET n == Len(ElementTexts(d))
    IN IF \E i \in 1..n : Labelled(d, i)
       THEN <<TrimSpace(ElementTexts(d)
                  [CHOOSE i \in 1..n : Labelled(d, i)
                                          /\ \A j \in 1..(i - 1) : ~Labelled(d, j)])>>
       ELSE <<>>

\* the part of s before its first line break or tab
UpToBreak(s) ==
    IF \E i \in 1..Len(s) : s[i] \in Breaks
    THEN SubSeq(s, 1, (CHOOSE i \in 1..Len(s) :
                          s[i] \in Breaks /\ \A j \in 1..(i - 1) : s[j] \notin Breaks) - 1)
    ELSE s

\* the statement as written: the remainder after the label is truncated at
\* its first line break or tab and then trimmed
C13_Original ==
    onr.pc = "done" =>
        IF FirstLabelled(onr.doc) = <<>> THEN onr.ret = <<>>
        ELSE onr.ret = TrimSpace(UpToBreak(Tail(FirstLabelled(onr.doc)[1])))

\* C13: the first element in document order whose trimmed text begins with
\* the label decides; the identifier starts at the first token after the
\* label that is no whitespace, ends before the first line break or tab
\* that follows, and has no whitespace at its end; it is empty when nothing
\* but whitespace follows the label, and when no element is labelled.
C13_OrderNumber ==
    onr.pc = "done" =>
        IF FirstLabelled(onr.doc) = <<>> THEN onr.ret = <<>>
        ELSE LET t == FirstLabelled(onr.doc)[1]
                 words == {a \in 2..Len(t) : t[a] \notin Space}
             IN IF words = {} THEN onr.ret = <<>>
                ELSE LET a == CHOOSE x \in words : \A y \in words : x <= y
                         stops == {b \in a..Len(t) : t[b] \in Breaks}
                         b == IF stops = {} THEN Len(t) + 1
                              ELSE CHOOSE x \in stops : \A y \in stops : x <= y
                         c == CHOOSE x \in a..(b - 1) :
                                  t[x] \notin Space
                                      /\ \A y \in (x + 1)..(b - 1) : t[y] \in Space
                     IN onr.ret = SubSeq(t, a, c)

\* the label and its value in one element, a line break and more text in
\* its child: the value alone is returned
C13_Witness ==
    /\ onr.pc = "done"
    /\ Len(onr.doc) = 2
    /\ onr.doc[1].text = <<Label, " ", "W1">>
    /\ onr.doc[2].depth = 2
    /\ onr.doc[2].text = <<"\n", "W1">>
    /\ onr.ret = <<"W1">>

(***************************************************************************)
(* File names (sanitizeFilename)                                           *)
(*                                                                         *)
(* A string is the sequence of its characters; a character outside ASCII   *)
(* is written by its code point.                                           *)
(***************************************************************************)
MaxName == 4       \* characters of a string handed to sanitizeFilename

LowerLetters == {"a", "b", "c", "d", "e", "f", "g", "h", "i", "j", "k", "l", "m",
                 "n", "o", "p", "q", "r", "s", "t", "u", "v", "w", "x", "y", "z"}
UpperLetters == {"A", "B", "C", "D", "E", "F", "G", "H", "I", "J", "K", "L", "M",
                 "N", "O", "P", "Q", "R", "S", "T", "U", "V", "W", "X", "Y", "Z"}
Digits == {"0", "1", "2", "3", "4", "5", "6", "7", "8", "9"}

\* the characters of the class between 0-9 and \- as the source file holds
\* them
ClassExtra == {"U+0102", "U+00A4", "U+00B6", "U+013D", "U+201E", "U+2013",
               "U+015B", "U+017A"}

\* the complement of the class [^a-zA-Z0-9...\-_ ]
Allowed == LowerLetters \cup UpperLetters \cup Digits \cup ClassExtra
               \cup {"-", "_", " "}

\* the characters of the harness: a letter of each case, a digit, u-umlaut,
\* the currency sign, hyphen, underscore, space, and two signs
NameChars == {"a", "Z", "7", "U+00FC", "U+00A4", "-", "_", " ", "#", "/"}

\* regexp ...+ with ReplaceAllString(s, "_"): every maximal run of characters
\* of the class becomes one underscore
RECURSIVE SkipRun(_)
SkipRun(s) == IF s # <<>> /\ Head(s) \notin Allowed THEN SkipRun(Tail(s)) ELSE s
RECURSIVE ReplaceAllString(_)
ReplaceAllString(s) ==
    IF s = <<>> THEN <<>>
    ELSE IF Head(s) \in Allowed THEN <<Head(s)>> \o ReplaceAllString(Tail(s))
    ELSE <<"_">> \o ReplaceAllString(SkipRun(s))

DefaultName == <<"i", "n", "v", "o", "i", "c", "e">>

\* mutant: an empty result stays empty
OrDefault_Empty(s) == s

\* if s = strings.TrimSpace(s); s == "" { s = "invoice" }
OrDefault(s) == IF s = <<>> THEN DefaultName ELSE s

sanitizeFilename(s) == OrDefault(TrimSpace(ReplaceAllString(s)))

InitSanitize ==
    /\ san \in [pc : {"call"}, s : SeqsUpTo(NameChars, MaxName), ret : {<<>>}]
    /\ flt = IdleFlt
    /\ ext = IdleExt
    /\ cln = IdleCln
    /\ onr = IdleOnr
    /\ lcf = IdleLcf
    /\ chn = IdleChn
    /\ ScanIdle

CallSanitizeFilename ==
    /\ san.pc = "call"
    /\ san' = [san EXCEPT !.pc = "done", !.ret = sanitizeFilename(san.s)]
    /\ UNCHANGED <<flt, ext, cln, onr, lcf, chn, scanVars>>

NextSanitize == CallSanitizeFilename

SpecSanitize == InitSanitize /\ [][NextSanitize]_vars

\* the allow-list of the documentation: ASCII letters and digits, the seven
\* German letters, hyphen, underscore, space
Umlauts == {"U+00E4", "U+00F6", "U+00FC", "U+00C4", "U+00D6", "U+00DC", "U+00DF"}
AllowList == LowerLetters \cup UpperLetters \cup Digits \cup Umlauts \cup {"-", "_", " "}

\* C17: every character outside the allow-list becomes an underscore and
\* every allow-listed character stays (before the surrounding spaces are
\* trimmed and an empty result is replaced by the default token), and the
\* output holds only allow-listed characters and underscores.
C17_AllowListOnly ==
    san.pc = "done" =>
        /\ san.ret = OrDefault(TrimSpace(
                         [i \in 1..Len(san.s) |->
                             IF san.s[i] \in AllowList THEN san.s[i] ELSE "_"]))
        /\ \A i \in 1..Len(san.ret) : san.ret[i] \in AllowList

\* what holds of sanitizeFilename with the class as the source file has it:
\* the output holds only characters the class lets pass, and underscores
OutputInClass ==
    san.pc = "done" => \A i \in 1..Len(san.ret) : san.ret[i] \in Allowed

MaxCount == 2      \* largest filter.count written in the file

\* a key of the file: absent, or set to one of vals or to ""
StrKey(vals) == {[set |-> FALSE, v |-> ""]} \cup [set : {TRUE}, v : vals \cup {""}]
CountKey == {[set |-> FALSE, v |-> 0]} \cup [set : {TRUE}, v : 0..MaxCount]

YamlData == [user : StrKey({"user@example.com"}),
             emailFrom : StrKey({"sender@example.com"}),
             emailTo : {[set |-> TRUE, v |-> "recipient@example.com"]},
             emailSubject : StrKey({"Custom Subject"}),
             filterCount : CountKey,
             filterSubject : StrKey({"My Invoice"}),
             filterFrom : StrKey({"example.com"})]

ConfigFiles(d) == {[state |-> "missing"], [state |-> "invalid"]}
                      \cup [state : {"ok"}, data : d]

\* yaml.Unmarshal(data, &cfg) on "var cfg Config": a key of the file sets its
\* field, every other field keeps its zero value
StrField(k) == IF k.set THEN k.v ELSE ""
IntField(k) == IF k.set THEN k.v ELSE 0
Unmarshal(data) ==
    [User |-> StrField(data.user),
     Email |-> [From |-> StrField(data.emailFrom),
                To |-> StrField(data.emailTo),
                Subject |-> StrField(data.emailSubject)],
     Filter |-> [Count |-> IntField(data.filterCount),
                 Subject |-> StrField(data.filterSubject),
                 From |-> StrField(data.filterFrom)]]

\* mutant: the default replaces the setting whatever it holds
IfEmpty_Always(v, d) == d

\* if cfg.X == "" { cfg.X = d }
IfEmpty(v, d) == IF v = "" THEN d ELSE v

\* loadConfig(path): (*Config, error); cfg is <<>> for nil
loadConfig(file) ==
    IF file.state = "missing"
    THEN [cfg |-> <<>>, err |-> "reading config file"]
    ELSE IF file.state = "invalid"
    THEN [cfg |-> <<>>, err |-> "parsing config file"]
    ELSE LET c0 == Unmarshal(file.data)
             c1 == [c0 EXCEPT !.Email.From = IfEmpty(@, c0.User)]
             c2 == [c1 EXCEPT !.Filter.Subject = IfEmpty(@, "Deine Rechnung von Apple")]
             c3 == [c2 EXCEPT !.Filter.From = IfEmpty(@, "apple.com")]
             c4 == [c3 EXCEPT !.Email.Subject =
                                  IfEmpty(@, "Deine PDF-Rechnungen von Apple")]
         IN [cfg |-> <<c4>>, err |-> "nil"]

InitConfig ==
    /\ lcf \in [pc : {"call"}, file : ConfigFiles(YamlData),
                out : {[cfg |-> <<>>, err |-> "nil"]}]
    /\ flt = IdleFlt
    /\ ext = IdleExt
    /\ cln = IdleCln
    /\ onr = IdleOnr
    /\ san = IdleSan
    /\ chn = IdleChn
    /\ ScanIdle

\* cfg, err := loadConfig("config.yaml")
CallLoadConfig ==
    /\ lcf.pc = "call"
    /\ lcf' = [lcf EXCEPT !.pc = "done", !.out = loadConfig(lcf.file)]
    /\ UNCHANGED <<flt, ext, cln, onr, san, chn, scanVars>>

NextConfig == CallLoadConfig

SpecConfig == InitConfig /\ [][NextConfig]_vars

\* the setting is empty in the file: the key is absent or holds ""
Empty(k) == ~k.set \/ k.v = ""
\* what the claim asks of an optional string setting
Expected(k, default) == IF Empty(k) THEN default ELSE k.v

\* C22: loadConfig puts the default in place of an optional setting exactly
\* when the file leaves it empty (email.from: the user, filter.subject:
\* "Deine Rechnung von Apple", filter.from: "apple.com", email.subject:
\* "Deine PDF-Rechnungen von Apple", filter.count: 0) and returns every
\* other value as the file has it; a missing file and invalid YAML give an
\* error and no configuration.
C22_DefaultsIffEmpty ==
    lcf.pc = "done" =>
        IF lcf.file.state # "ok"
        THEN lcf.out.err # "nil" /\ lcf.out.cfg = <<>>
        ELSE /\ lcf.out.err = "nil"
             /\ Len(lcf.out.cfg) = 1
             /\ LET d == lcf.file.data
                    c == lcf.out.cfg[1]
                IN /\ c.User = (IF d.user.set THEN d.user.v ELSE "")
                   /\ c.Email.To = d.emailTo.v
                   /\ c.Email.From = Expected(d.emailFrom, c.User)
                   /\ c.Filter.Subject
                          = Expected(d.filterSubject, "Deine Rechnung von Apple")
                   /\ c.Filter.From = Expected(d.filterFrom, "apple.com")
                   /\ c.Email.Subject
                          = Expected(d.emailSubject, "Deine PDF-Rechnungen von Apple")
                   /\ c.Filter.Count
                          = (IF d.filterCount.set THEN d.filterCount.v ELSE 0)

\* a file that sets the filter subject and the count and leaves the sender
\* domain out: the first two come back as written, the third is apple.com
C22_Witness ==
    /\ lcf.pc = "done"
    /\ lcf.file.state = "ok"
    /\ lcf.file.data.filterSubject = [set |-> TRUE, v |-> "My Invoice"]
    /\ lcf.file.data.filterCount = [set |-> TRUE, v |-> MaxCount]
    /\ ~lcf.file.data.filterFrom.set
    /\ lcf.out.cfg[1].Filter
           = [Count |-> MaxCount, Subject |-> "My Invoice", From |-> "apple.com"]

(***************************************************************************)
(* Mailbox scanner (fetchInvoices, fetchMatchingUIDs, fetchBodies)         *)
(*                                                                         *)
(* The IMAP server is the environment: it answers a FETCH with one         *)
(* response per message of the requested set, in any order, and ends the   *)
(* command with OK (only after every requested message was answered) or    *)
(* with an error (at any time).  Up to MaxExtra responses of a run are     *)
(* irregular: a repeated response, an unsolicited response without         *)
(* envelope, or a response of pass 2 that carries no body.                 *)
(***************************************************************************)
MaxTotal == 2      \* largest mailbox
MaxExtra == 1      \* irregular responses of the server per run
UidBase == 10      \* uid of the message at position p is UidBase + 2p

UidAt(p) == UidBase + 2 * p

FilterSubject == <<"s", "a">>
FilterFrom == <<"a", "p">>
Today == [year |-> 2026, month |-> 2]

EnvInvoice == [Subject |-> FilterSubject,
               From |-> <<[HostName |-> <<"x", "A", "P">>]>>,
               Date |-> Today]
EnvOld == [Subject |-> FilterSubject,
           From |-> <<[HostName |-> <<"a", "p">>]>>,
           Date |-> [year |-> 2026, month |-> 1]]

PlainPart == [kind |-> "inline", ct |-> "text/plain", body |-> "b1", readErr |-> FALSE]
\* the HTML of an invoice: the order number and a button; of a receipt
\* without order number
InvoiceHtml == <<Div(<<Label, " ", "W", "1", "\n">>),
                 El("div", "", {"action-button-cell"}, NoStr, <<"Click">>, NoStr)>>
ReceiptHtml == <<Div(<<"W", "1">>)>>
HtmlPart == [kind |-> "inline", ct |-> "text/html", body |-> InvoiceHtml,
             readErr |-> FALSE]
ReceiptPart == [kind |-> "inline", ct |-> "text/html", body |-> ReceiptHtml,
                readErr |-> FALSE]
MimeHtml == [createErr |-> FALSE, parts |-> <<PlainPart, HtmlPart>>]
MimeReceipt == [createErr |-> FALSE, parts |-> <<ReceiptPart>>]
MimeNoHtml == [createErr |-> FALSE, parts |-> <<PlainPart>>]

\* the kinds of message a mailbox of the model holds
MsgKinds == {[env |-> EnvInvoice, mime |-> MimeHtml],
             [env |-> EnvInvoice, mime |-> MimeReceipt],
             [env |-> EnvInvoice, mime |-> MimeNoHtml],
             [env |-> EnvOld, mime |-> MimeHtml]}

\* filter.count as a Go int: hi * 2^32 + lo with 0 <= lo < 2^32; the values
\* are 0 (no limit), 1, 2, 2^32 and 2^32 + 1
Counts == [hi : {0}, lo : {0, 1, 2}] \cup [hi : {1}, lo : {0, 1}]
CountPositive(n) == n.hi > 0 \/ n.lo > 0
\* uint32(cfg.Filter.Count) keeps the low 32 bits
Uint32(n) == n.lo

ChanCap1 == 10

\* "Build sequence set": the arguments of seqSet.AddRange(from, mbox.Messages)
SeqRange(count, mboxMessages) ==
    LET from == IF CountPositive(count)
                THEN (IF mboxMessages > Uint32(count)
                      THEN mboxMessages - Uint32(count) + 1
                      ELSE 1)
                ELSE 1
    IN <<from, mboxMessages>>

\* imap.SeqSet.AddRange stores the range with its ends in order
NormRange(r) ==
    IF (r[2] < r[1] /\ r[2] # 0) \/ r[1] = 0 THEN <<r[2], r[1]>> ELSE r

\* the positions of the mailbox a FETCH of range r addresses
Window(r) ==
    IF r = <<>> THEN {}
    ELSE {p \in 1..Len(mailbox) : NormRange(r)[1] <= p /\ p <= NormRange(r)[2]}

\* the readOnly argument of c.Select("INBOX", true)
SelectReadOnly == TRUE

\* mutant: the body section does not peek
Section_NoPeek == [Peek |-> FALSE]

\* section := &imap.BodySectionName{Peek: true}
Section == [Peek |-> TRUE]
\* section.FetchItem()
FetchItem(section) == IF section.Peek THEN "BODY.PEEK[]" ELSE "BODY[]"
\* mutant: pass 1 asks for the body as well
EnvelopeItems_WithBody == {"ENVELOPE", "UID", "BODY.PEEK[]"}

\* items := []imap.FetchItem{imap.FetchEnvelope, imap.FetchUid}
EnvelopeItems == {"ENVELOPE", "UID"}
BodyItems == {FetchItem(Section), "ENVELOPE"}

\* imap.SeqSet built by AddNum over uids: a set of numbers
UidSetOf(us) == {us[i] : i \in 1..Len(us)}

InitScan ==
    /\ flt = IdleFlt
    /\ ext = IdleExt
    /\ cln = IdleCln
    /\ onr = IdleOnr
    /\ san = IdleSan
    /\ lcf = IdleLcf
    /\ chn = IdleChn
    /\ cfg \in [Filter : [Count : Counts, Subject : {FilterSubject}, From : {FilterFrom}]]
    /\ now = Today
    /\ \E n \in 0..MaxTotal : \E kinds \in [1..n -> MsgKinds] :
           mailbox = [p \in 1..n |-> [uid |-> UidAt(p), env |-> kinds[p].env,
                                      mime |-> kinds[p].mime]]
    /\ seen = {mailbox[p].uid : p \in {q \in 1..Len(mailbox) : q % 2 = 1}}
    /\ seen0 = seen
    /\ pc = "init"
    /\ readOnly = FALSE
    /\ total = 0
    /\ seqSet = <<>>
    /\ requests = <<>>
    /\ messages = <<>>
    /\ chOpen = FALSE
    /\ done = <<>>
    /\ answered = {}
    /\ sent = <<>>
    /\ extras = 0
    /\ uids = <<>>
    /\ invoices = <<>>
    /\ warnings = <<>>
    /\ failed = {}
    /\ result = [state |-> "none"]
    /\ outcomes = <<>>
    /\ attachments = <<>>
    /\ mails = <<>>

harnessVars == <<flt, ext, cln, onr, san, lcf, chn>>
mainVars == <<outcomes, attachments, mails>>

\* return from fetchInvoices; the deferred c.Logout() runs once dialled
Return(inv, err) ==
    /\ pc' = "returned"
    /\ result' = [state |-> "returned", invoices |-> inv, err |-> err]
    /\ requests' = IF pc = "start" THEN requests
                   ELSE Append(requests, [cmd |-> "LOGOUT", set |-> {}, items |-> {}])

\* client.DialTLS
Dial ==
    /\ pc = "start"
    /\ \/ /\ pc' = "dialed"
          /\ UNCHANGED <<result, requests, failed>>
       \/ /\ failed' = failed \cup {"dial"}
          /\ Return(<<>>, "connecting to IMAP server")
    /\ UNCHANGED <<harnessVars, mainVars, answered, extras, cfg, now, mailbox, seen,
                   seen0, readOnly, total, seqSet, messages, chOpen, done,
                   sent, uids, invoices, warnings>>

\* c.Login
Login ==
    /\ pc = "dialed"
    /\ \/ /\ pc' = "loggedIn"
          /\ UNCHANGED <<result, requests, failed>>
       \/ /\ failed' = failed \cup {"login"}
          /\ Return(<<>>, "IMAP login")
    /\ UNCHANGED <<harnessVars, mainVars, answered, extras, cfg, now, mailbox, seen,
                   seen0, readOnly, total, seqSet, messages, chOpen, done,
                   sent, uids, invoices, warnings>>

\* c.Select("INBOX", true) and the empty-mailbox return
Select ==
    /\ pc = "loggedIn"
    /\ \/ /\ readOnly' = SelectReadOnly
          /\ total' = Len(mailbox)
          /\ IF Len(mailbox) = 0
             THEN Return(<<>>, "nil")
             ELSE pc' = "selected" /\ UNCHANGED <<result, requests>>
          /\ UNCHANGED failed
       \/ /\ failed' = failed \cup {"select"}
          /\ Return(<<>>, "selecting INBOX")
          /\ UNCHANGED <<readOnly, total>>
    /\ UNCHANGED <<harnessVars, mainVars, answered, extras, cfg, now, mailbox, seen,
                   seen0, seqSet, messages, chOpen, done, sent, uids,
                   invoices, warnings>>

\* seqSet.AddRange, then fetchMatchingUIDs up to the start of its goroutine:
\* the FETCH command goes out
StartPass1 ==
    /\ pc = "selected"
    /\ seqSet' = SeqRange(cfg.Filter.Count, total)
    /\ requests' = Append(requests, [cmd |-> "FETCH",
                                     set |-> Window(SeqRange(cfg.Filter.Count, total)),
                                     items |-> EnvelopeItems])
    /\ messages' = <<>>
    /\ chOpen' = TRUE
    /\ done' = <<>>
    /\ answered' = {}
    /\ uids' = <<>>
    /\ pc' = "pass1"
    /\ UNCHANGED <<harnessVars, mainVars, sent, extras, cfg, now, mailbox, seen,
                   seen0, readOnly, total, invoices, warnings, failed,
                   result>>

LastRequest == requests[Len(requests)]


\* a FETCH response the server sends on its own (a flag update): it has
\* neither envelope nor uid
Unsolicited == [Uid |-> 0, hasEnv |-> FALSE, Envelope |-> EnvOld]

\* c.Fetch streams one response into the channel (blocks while it is full):
\* the answer for position p, or an unsolicited response
Pass1Deliver(p, withEnv) ==
    /\ pc = "pass1"
    /\ chOpen
    /\ Len(messages) < ChanCap1
    /\ p \in LastRequest.set
    /\ (withEnv /\ p \notin answered) \/ extras < MaxExtra
    /\ extras' = IF withEnv /\ p \notin answered THEN extras ELSE extras + 1
    /\ messages' = Append(messages,
                          IF withEnv
                          THEN [Uid |-> mailbox[p].uid, hasEnv |-> TRUE,
                                Envelope |-> mailbox[p].env]
                          ELSE Unsolicited)
    /\ answered' = IF withEnv THEN answered \cup {p} ELSE answered
    /\ UNCHANGED <<harnessVars, mainVars, sent, cfg, now, mailbox, seen, seen0, pc,
                   readOnly, total, seqSet, requests, chOpen, done, uids,
                   invoices, warnings, failed, result>>

\* c.Fetch returns nil: the channel is closed, the status goes to done
Pass1FetchOk ==
    /\ pc = "pass1"
    /\ chOpen
    /\ LastRequest.set \subseteq answered
    /\ chOpen' = FALSE
    /\ done' = <<"nil">>
    /\ UNCHANGED <<harnessVars, mainVars, answered, extras, cfg, now, mailbox, seen,
                   seen0, pc, readOnly, total, seqSet, requests, messages,
                   sent, uids, invoices, warnings, failed, result>>

\* c.Fetch returns an error (connection lost, NO/BAD from the server)
Pass1FetchErr ==
    /\ pc = "pass1"
    /\ chOpen
    /\ chOpen' = FALSE
    /\ done' = <<"err">>
    /\ failed' = failed \cup {"fetch1"}
    /\ UNCHANGED <<harnessVars, mainVars, answered, extras, cfg, now, mailbox, seen,
                   seen0, pc, readOnly, total, seqSet, requests, messages,
                   sent, uids, invoices, warnings, result>>

\* body of the loop "for msg := range messages" of fetchMatchingUIDs
AppendMatch(us, msg) ==
    IF msg.hasEnv /\ matchesFilter(msg.Envelope, cfg, now)
    THEN Append(us, msg.Uid)
    ELSE us

Pass1Consume ==
    /\ pc = "pass1"
    /\ messages # <<>>
    /\ uids' = AppendMatch(uids, Head(messages))
    /\ messages' = Tail(messages)
    /\ UNCHANGED <<harnessVars, mainVars, answered, extras, cfg, now, mailbox, seen,
                   seen0, pc, readOnly, total, seqSet, requests, chOpen,
                   done, sent, invoices, warnings, failed, result>>

\* the channel is closed and drained: fetchMatchingUIDs reads done and
\* returns; fetchInvoices returns on an empty list, else fetchBodies sends
\* the UID FETCH and starts its goroutine
Pass1Return ==
    /\ pc = "pass1"
    /\ messages = <<>>
    /\ ~chOpen
    /\ done # <<>>
    /\ done' = <<>>
    /\ warnings' = IF done[1] # "nil"
                   THEN Append(warnings, [event |-> "fetching envelopes", uid |-> 0])
                   ELSE warnings
    /\ IF Len(uids) = 0
       THEN /\ Return(<<>>, "nil")
            /\ UNCHANGED <<chOpen, answered>>
       ELSE /\ requests' = Append(requests, [cmd |-> "UID FETCH",
                                             set |-> UidSetOf(uids),
                                             items |-> BodyItems])
            /\ chOpen' = TRUE
            /\ answered' = {}
            /\ pc' = "pass2"
            /\ UNCHANGED result
    /\ UNCHANGED <<harnessVars, mainVars, sent, extras, cfg, now, mailbox, seen,
                   seen0, readOnly, total, seqSet, messages, uids, invoices,
                   failed>>


MessageWithUid(u) == mailbox[CHOOSE p \in 1..Len(mailbox) : mailbox[p].uid = u]

\* c.UidFetch streams one response into the channel; a BODY[] item that
\* does not peek sets \Seen on a mailbox selected read-write
Pass2Deliver(u, withBody) ==
    /\ pc = "pass2"
    /\ chOpen
    /\ Len(messages) < Len(uids)
    /\ u \in LastRequest.set
    /\ (withBody /\ u \notin answered) \/ extras < MaxExtra
    /\ extras' = IF withBody /\ u \notin answered THEN extras ELSE extras + 1
    /\ messages' = Append(messages, [Uid |-> u, hasBody |-> withBody,
                                     Envelope |-> MessageWithUid(u).env,
                                     Body |-> MessageWithUid(u).mime])
    /\ sent' = Append(sent, [key |-> u, full |-> withBody])
    /\ answered' = answered \cup {u}
    /\ seen' = IF withBody /\ "BODY[]" \in LastRequest.items /\ ~readOnly
               THEN seen \cup {u}
               ELSE seen
    /\ UNCHANGED <<harnessVars, mainVars, cfg, now, mailbox, seen0, pc, readOnly,
                   total, seqSet, requests, chOpen, done, uids, invoices,
                   warnings, failed, result>>

Pass2FetchOk ==
    /\ pc = "pass2"
    /\ chOpen
    /\ LastRequest.set \subseteq answered
    /\ chOpen' = FALSE
    /\ done' = <<"nil">>
    /\ UNCHANGED <<harnessVars, mainVars, answered, extras, cfg, now, mailbox, seen,
                   seen0, pc, readOnly, total, seqSet, requests, messages,
                   sent, uids, invoices, warnings, failed, result>>

Pass2FetchErr ==
    /\ pc = "pass2"
    /\ chOpen
    /\ chOpen' = FALSE
    /\ done' = <<"err">>
    /\ failed' = failed \cup {"fetch2"}
    /\ UNCHANGED <<harnessVars, mainVars, answered, extras, cfg, now, mailbox, seen,
                   seen0, pc, readOnly, total, seqSet, requests, messages,
                   sent, uids, invoices, warnings, result>>

\* mutant: a body without HTML part still yields a document
BodyStep_KeepFailed(msg) ==
    IF ~msg.hasBody
    THEN [skip |-> TRUE, event |-> "no body", doc |-> <<>>]
    ELSE [skip |-> FALSE, event |-> "",
          doc |-> <<[Subject |-> msg.Envelope.Subject, Date |-> msg.Envelope.Date,
                     HTMLBody |-> extractHTMLBody(msg.Body).html]>>]

\* body of the loop "for msg := range messages" of fetchBodies
BodyStep(msg) ==
    IF ~msg.hasBody
    THEN [skip |-> TRUE, event |-> "no body", doc |-> <<>>]
    ELSE IF extractHTMLBody(msg.Body).err # "nil"
    THEN [skip |-> TRUE, event |-> "extracting HTML", doc |-> <<>>]
    ELSE [skip |-> FALSE, event |-> "",
          doc |-> <<[Subject |-> msg.Envelope.Subject, Date |-> msg.Envelope.Date,
                     HTMLBody |-> extractHTMLBody(msg.Body).html]>>]

Pass2Consume ==
    /\ pc = "pass2"
    /\ messages # <<>>
    /\ LET step == BodyStep(Head(messages)) IN
          /\ invoices' = invoices \o step.doc
          /\ warnings' = IF step.skip
                         THEN Append(warnings, [event |-> step.event,
                                                uid |-> Head(messages).Uid])
                         ELSE warnings
    /\ messages' = Tail(messages)
    /\ UNCHANGED <<harnessVars, mainVars, answered, extras, cfg, now, mailbox, seen,
                   seen0, pc, readOnly, total, seqSet, requests, chOpen,
                   done, sent, uids, failed, result>>

\* the channel is closed and drained: fetchBodies reads done and returns
Pass2Return ==
    /\ pc = "pass2"
    /\ messages = <<>>
    /\ ~chOpen
    /\ done # <<>>
    /\ done' = <<>>
    /\ IF done[1] # "nil"
       THEN Return(<<>>, "fetching bodies")
       ELSE Return(invoices, "nil")
    /\ UNCHANGED <<harnessVars, mainVars, answered, extras, cfg, now, mailbox, seen,
                   seen0, readOnly, total, seqSet, messages, chOpen, sent,
                   uids, invoices, warnings, failed>>

\* main: log.Fatalf on a scan error, clean return without invoices, else
\* the conversion loop starts
MainAfterFetch ==
    /\ pc = "returned"
    /\ pc' = IF result.err # "nil" THEN "fatal"
             ELSE IF Len(result.invoices) = 0 THEN "exit"
             ELSE "processing"
    /\ UNCHANGED <<harnessVars, mainVars, answered, extras, cfg, now, mailbox, seen,
                   seen0, readOnly, total, seqSet, requests, messages,
                   chOpen, done, sent, uids, invoices, warnings, failed,
                   result>>

\* fmt %d
RECURSIVE DigitsOf(_)
DigitsOf(n) ==
    LET d == <<"0", "1", "2", "3", "4", "5", "6", "7", "8", "9">>[(n % 10) + 1]
    IN IF n < 10 THEN <<d>> ELSE Append(DigitsOf(n \div 10), d)

\* mutant: the number without its leading zeros
Pad_NoZeros(n, w) == DigitsOf(n)

\* fmt %02d, %04d
RECURSIVE Pad(_, _)
Pad(n, w) ==
    IF Len(DigitsOf(n)) >= w THEN DigitsOf(n)
    ELSE <<"0">> \o SubSeq(Pad(n, w - 1), 1, w - 1)

RechnungApple == <<"_", "R", "e", "c", "h", "n", "u", "n", "g", "_",
                   "A", "p", "p", "l", "e", "_">>
DotPdf == <<".", "p", "d", "f">>

\* mutant: the suffix counts from zero
IndexSuffix_FromZero(filename, i, n) ==
    IF n > 1 THEN filename \o <<"_">> \o DigitsOf(i) ELSE filename

\* if len(invoices) > 1 { filename = fmt.Sprintf("%s_%d", filename, i+1) }
IndexSuffix(filename, i, n) ==
    IF n > 1 THEN filename \o <<"_">> \o DigitsOf(i + 1) ELSE filename

\* the name main gives the attachment of invoices[i] (i counts from 0) of n
FileName(inv, i, n) ==
    LET orderNum == extractOrderNumber(inv.HTMLBody)
    IN (IF orderNum # <<>>
        THEN Pad(inv.Date.month, 2) \o <<"_">> \o Pad(inv.Date.year, 4)
                 \o RechnungApple \o sanitizeFilename(orderNum)
        ELSE IndexSuffix(sanitizeFilename(inv.Subject), i, n))
       \o DotPdf

\* LoadConfig: loadConfig("config.yaml") in main
LoadConfig ==
    /\ pc = "init"
    /\ \/ pc' = "start" /\ UNCHANGED failed
       \/ pc' = "fatal" /\ failed' = failed \cup {"config"}
    /\ UNCHANGED <<harnessVars, mainVars, answered, extras, cfg, now, mailbox,
                   seen, seen0, readOnly, total, seqSet, requests, messages,
                   chOpen, done, sent, uids, invoices, warnings, result>>

\* convertHTMLToPDF: headless Chrome prints the document, or fails
PdfResults == {"nil", "generating PDF"}

\* the error of cleanHTML when goquery cannot render the document
CleanResults == {"nil", "rendering HTML"}

\* mutant: a failed item takes the earlier attachments with it
SkipItem_DropAll(atts) == <<>>

\* log.Printf("ERROR ..."); continue: the item is left out, the attachments
\* made so far stay
SkipItem(atts) == atts

\* one round of the loop "for i, inv := range invoices" of main; cleanErr
\* is what goquery reports inside cleanHTML, pdfErr what convertHTMLToPDF
\* returns if it is called
ProcessItem(cleanErr, pdfErr) ==
    /\ pc = "processing"
    /\ Len(outcomes) < Len(result.invoices)
    /\ LET i == Len(outcomes)
           inv == result.invoices[i + 1]
           cleaned == IF cleanErr # "nil"
                      THEN [err |-> cleanErr, html |-> <<>>]
                      ELSE cleanHTML(inv.HTMLBody, NetDown)
       IN IF cleaned.err # "nil"
          THEN /\ outcomes' = Append(outcomes, "cleaning HTML")
               /\ attachments' = SkipItem(attachments)
          ELSE IF pdfErr # "nil"
          THEN /\ outcomes' = Append(outcomes, "converting to PDF")
               /\ attachments' = SkipItem(attachments)
          ELSE /\ outcomes' = Append(outcomes, "ok")
               /\ attachments' =
                      Append(attachments,
                             [Filename |-> FileName(inv, i, Len(result.invoices)),
                              Data |-> cleaned.html])
    /\ UNCHANGED <<harnessVars, mails, answered, extras, cfg, now, mailbox,
                   seen, seen0, pc, readOnly, total, seqSet, requests,
                   messages, chOpen, done, sent, uids, invoices, warnings,
                   failed, result>>

\* mutant: the mail is sent whatever the number of attachments
NothingToSend_Never(atts) == FALSE

\* if len(attachments) == 0 { return }
NothingToSend(atts) == Len(atts) = 0

\* the end of main: return without PDFs, else sendPDFEmail, and log.Fatalf
\* when it fails
SendOrReturn ==
    /\ pc = "processing"
    /\ Len(outcomes) = Len(result.invoices)
    /\ IF NothingToSend(attachments)
       THEN pc' = "exit" /\ UNCHANGED <<mails, failed>>
       ELSE /\ mails' = Append(mails, attachments)
            /\ \/ pc' = "exit" /\ UNCHANGED failed
               \/ pc' = "fatal" /\ failed' = failed \cup {"send"}
    /\ UNCHANGED <<harnessVars, outcomes, attachments, answered, extras, cfg,
                   now, mailbox, seen, seen0, readOnly, total, seqSet,
                   requests, messages, chOpen, done, sent, uids, invoices,
                   warnings, result>>

Next ==
    \/ LoadConfig
    \/ Dial
    \/ Login
    \/ Select
    \/ StartPass1
    \/ \E p \in 1..MaxTotal, withEnv \in BOOLEAN : Pass1Deliver(p, withEnv)
    \/ Pass1FetchOk
    \/ Pass1FetchErr
    \/ Pass1Consume
    \/ Pass1Return
    \/ \E u \in {UidAt(p) : p \in 1..MaxTotal}, withBody \in BOOLEAN :
           Pass2Deliver(u, withBody)
    \/ Pass2FetchOk
    \/ Pass2FetchErr
    \/ Pass2Consume
    \/ Pass2Return
    \/ MainAfterFetch
    \/ \E cleanErr \in CleanResults, pdfErr \in PdfResults :
           ProcessItem(cleanErr, pdfErr)
    \/ SendOrReturn

Spec == InitScan /\ [][Next]_vars

(***************************************************************************)
(* The fetch goroutine and its consumer loop (fetchMatchingUIDs,           *)
(* fetchBodies)                                                            *)
(*                                                                         *)
(* The two functions share one protocol: a goroutine runs the fetch, which *)
(* sends each response into the buffered channel messages, closes the      *)
(* channel when it returns, and its status goes into the channel done      *)
(* (capacity 1); the caller ranges over messages and then receives from    *)
(* done.  The responses are numbered 1, 2, ... in the order of delivery;   *)
(* the fetch may return, with or without error, after any number of them.  *)
(***************************************************************************)
MaxResults == 12   \* responses one fetch delivers at most

\* make(chan *imap.Message, 10) / make(chan *imap.Message, len(uids))
ChanCap(pass, n) == IF pass = 1 THEN ChanCap1 ELSE n

ChanStart(pass, n) ==
    [pc |-> "run", pass |-> pass, n |-> n, cap |-> ChanCap(pass, n),
     queue |-> <<>>, made |-> 0, peak |-> 0, open |-> TRUE, ret |-> <<>>,
     posted |-> FALSE, done |-> <<>>, cpc |-> "loop", got |-> <<>>,
     status |-> ""]

InitChan ==
    /\ chn \in {ChanStart(1, 0)} \cup {ChanStart(2, n) : n \in 1..MaxTotal}
    /\ flt = IdleFlt
    /\ ext = IdleExt
    /\ cln = IdleCln
    /\ onr = IdleOnr
    /\ san = IdleSan
    /\ lcf = IdleLcf
    /\ ScanIdle

chnOthers == <<flt, ext, cln, onr, san, lcf, scanVars>>

\* the fetch sends a response: ch <- msg blocks while the channel is full
ChanSend ==
    /\ chn.pc = "run"
    /\ chn.open
    /\ Len(chn.queue) < chn.cap
    /\ chn.made < MaxResults
    /\ chn' = [chn EXCEPT !.queue = Append(@, chn.made + 1),
                          !.made = @ + 1,
                          !.peak = IF Len(chn.queue) + 1 > @
                                   THEN Len(chn.queue) + 1 ELSE @]
    /\ UNCHANGED chnOthers

\* c.Fetch / c.UidFetch returns err: the channel is closed
ChanFetchReturns(err) ==
    /\ chn.pc = "run"
    /\ chn.open
    /\ chn' = [chn EXCEPT !.open = FALSE, !.ret = <<err>>]
    /\ UNCHANGED chnOthers

\* done <- (what the fetch returned); done has room for it
ChanDone ==
    /\ chn.pc = "run"
    /\ chn.ret # <<>>
    /\ ~chn.posted
    /\ Len(chn.done) < 1
    /\ chn' = [chn EXCEPT !.done = chn.ret, !.posted = TRUE]
    /\ UNCHANGED chnOthers

\* one round of "for msg := range messages"
ChanReceive ==
    /\ chn.pc = "run"
    /\ chn.cpc = "loop"
    /\ chn.queue # <<>>
    /\ chn' = [chn EXCEPT !.got = Append(@, Head(chn.queue)),
                          !.queue = Tail(@)]
    /\ UNCHANGED chnOthers

\* mutant: the loop ends as soon as the channel is empty
RangeEnds_OnEmpty(queue, open) == queue = <<>>

\* "range messages" ends when the channel is closed and empty
RangeEnds(queue, open) == queue = <<>> /\ ~open

ChanLoopEnd ==
    /\ chn.pc = "run"
    /\ chn.cpc = "loop"
    /\ RangeEnds(chn.queue, chn.open)
    /\ chn' = [chn EXCEPT !.cpc = "wait"]
    /\ UNCHANGED chnOthers

\* err := <-done, and the function returns
ChanReadDone ==
    /\ chn.pc = "run"
    /\ chn.cpc = "wait"
    /\ chn.done # <<>>
    /\ chn' = [chn EXCEPT !.status = chn.done[1], !.done = <<>>,
                          !.cpc = "returned"]
    /\ UNCHANGED chnOthers

NextChan ==
    \/ ChanSend
    \/ \E err \in {"nil", "err"} : ChanFetchReturns(err)
    \/ ChanDone
    \/ ChanReceive
    \/ ChanLoopEnd
    \/ ChanReadDone

SpecChan == InitChan /\ [][NextChan]_vars

\* the Go scheduler runs every goroutine that can take a step; the fetch
\* itself depends on the server and is under no such condition
SpecChanLive ==
    /\ SpecChan
    /\ WF_vars(ChanDone)
    /\ WF_vars(ChanReceive)
    /\ WF_vars(ChanLoopEnd)
    /\ WF_vars(ChanReadDone)

UpTo(n) == [i \in 1..n |-> i]

QueueSafe ==
    chn.pc = "run" =>
        /\ Len(chn.queue) <= (IF chn.pass = 1 THEN 10 ELSE chn.n)
        /\ chn.got \o chn.queue = UpTo(chn.made)
        /\ chn.cpc = "returned" =>
               /\ ~chn.open
               /\ chn.queue = <<>>
               /\ chn.got = UpTo(chn.made)
               /\ <<chn.status>> = chn.ret
        /\ chn.cpc # "returned" => ENABLED NextChan
        /\ (chn.open /\ Len(chn.queue) = chn.cap) => ENABLED ChanReceive

ProducerFinished == chn.pc = "run" /\ ~chn.open
PassReturned == chn.pc = "run" /\ chn.cpc = "returned"

\* C23: in each pass the channel never holds more than its capacity (10 in
\* pass 1, the number of candidates in pass 2), every response delivered is
\* received exactly once and in order, the status of the fetch is read only
\* after the channel was closed and drained, neither side blocks the other
\* for good, and once the fetch has returned the pass returns.
C23_QueueProtocol == []QueueSafe /\ (ProducerFinished ~> PassReturned)

\* pass 1 returned after more responses than the channel holds, the channel
\* having been full on the way
C23_Witness ==
    /\ PassReturned
    /\ chn.pass = 1
    /\ chn.made > ChanCap1
    /\ chn.peak = ChanCap1
    /\ Len(chn.got) = chn.made

(***************************************************************************)
(* Properties of the scan                                                  *)
(***************************************************************************)
Min(a, b) == IF a < b THEN a ELSE b

RequestsOf(cmd) == {i \in 1..Len(requests) : requests[i].cmd = cmd}
BodyRequests == {i \in 1..Len(requests) :
                     requests[i].items \cap {"BODY[]", "BODY.PEEK[]"} # {}}
Pass1Started == RequestsOf("FETCH") # {}
Pass1Over == pc \in {"pass2", "returned", "fatal", "exit", "processing"} /\ Pass1Started

\* min(N, total) for N = hi * 2^32 + lo and total < 2^32
MinCountTotal(n, t) == IF n.hi > 0 THEN t ELSE Min(n.lo, t)

\* C2: with N > 0 the pass-1 range is [total - min(N, total) + 1, total], with
\* N = 0 it is [1, total].
C2_RangeIsLastMin ==
    Pass1Started =>
        seqSet = IF CountPositive(cfg.Filter.Count)
                 THEN <<total - MinCountTotal(cfg.Filter.Count, total) + 1, total>>
                 ELSE <<1, total>>

\* C3: the candidate list holds each identifier at most once.
C3_NoDuplicateCandidate ==
    \A i, j \in 1..Len(uids) : i # j => uids[i] # uids[j]

Max(a, b) == IF a > b THEN a ELSE b

\* the positions between the two ends of seqSet that exist in the mailbox
RangePositions ==
    IF seqSet = <<>> THEN {}
    ELSE {p \in 1..total : Min(seqSet[1], seqSet[2]) <= p
                              /\ p <= Max(seqSet[1], seqSet[2])}

\* C4: pass 1 asks for envelope and uid only, in one FETCH that addresses
\* exactly the positions of the window whatever matches; a body is requested
\* only once pass 1 is over.
C4_Pass1MetadataOnly ==
    /\ \A i \in RequestsOf("FETCH") :
           /\ requests[i].items = {"ENVELOPE", "UID"}
           /\ requests[i].set = RangePositions
           /\ \A j \in BodyRequests : i < j
    /\ Cardinality(RequestsOf("FETCH")) <= 1
    /\ BodyRequests # {} => Pass1Over
    /\ pc = "pass1" => BodyRequests = {}

\* pass 2 is open on a window of two messages of which one matches
C4_Witness ==
    /\ pc = "pass2"
    /\ Cardinality(RangePositions) = 2
    /\ Len(uids) = 1
    /\ Len(sent) = 1

MatchingUids == {mailbox[p].uid : p \in {q \in Window(seqSet) :
                     matchesFilter(mailbox[q].env, cfg, now)}}

\* C5: after pass 1 the candidates are exactly the identifiers of the window
\* messages that satisfy the filter; pass 2 requests exactly those, and is
\* not opened for an empty candidate list.
C5_CandidatesExact ==
    Pass1Over =>
        /\ UidSetOf(uids) = MatchingUids
        /\ \A i \in RequestsOf("UID FETCH") : requests[i].set = MatchingUids
        /\ uids = <<>> => RequestsOf("UID FETCH") = {}
        /\ uids # <<>> => RequestsOf("UID FETCH") # {}

\* C6: a transport-level failure makes fetchInvoices return an error and no
\* document, and no later step of the scan runs.
C6_TransportFailureAborts ==
    /\ ((failed \cap {"dial", "login", "select", "fetch1", "fetch2"}) # {}
            /\ result.state = "returned") =>
           result.err # "nil" /\ result.invoices = <<>>
    /\ "fetch1" \in failed => RequestsOf("UID FETCH") = {}
    /\ (failed \cap {"dial", "login", "select"}) # {} =>
           RequestsOf("FETCH") \cup RequestsOf("UID FETCH") = {}

\* the scan without its pass-1 failure: what C5 and C6 say of the other runs
CandidatesExactIfFetchOk == "fetch1" \notin failed => C5_CandidatesExact
AbortsOnOtherFailures == "fetch1" \notin failed => C6_TransportFailureAborts

\* the content extraction succeeds on this body: an inline HTML part is
\* reached and read
Extractable(r) ==
    /\ ~r.createErr
    /\ \E i \in 1..Len(r.parts) :
           IsInlineHtml(r.parts[i]) /\ Skipped(r, i) /\ ~r.parts[i].readErr

FirstHtml(r) ==
    r.parts[CHOOSE i \in 1..Len(r.parts) :
                IsInlineHtml(r.parts[i]) /\ Skipped(r, i)].body

\* a response of pass 2 that yields no document
FailedResponse(e) == ~e.full \/ ~Extractable(MessageWithUid(e.key).mime)

\* the documents due for a sequence of pass-2 responses, in their order
RECURSIVE ExpectedDocs(_)
ExpectedDocs(s) ==
    IF s = <<>> THEN <<>>
    ELSE (IF FailedResponse(Head(s)) THEN <<>>
          ELSE <<[Subject |-> MessageWithUid(Head(s).key).env.Subject,
                  Date |-> MessageWithUid(Head(s).key).env.Date,
                  HTMLBody |-> FirstHtml(MessageWithUid(Head(s).key).mime)]>>)
         \o ExpectedDocs(Tail(s))

Pass2Warnings == {i \in 1..Len(warnings) :
                      warnings[i].event \in {"no body", "extracting HTML"}}
Pass2Request == requests[CHOOSE i \in RequestsOf("UID FETCH") : TRUE]

\* C7: with the body fetch itself succeeding, a candidate whose response has
\* no body or no HTML part is skipped with a warning and every other response
\* yields its document: the scan returns them without error, M - 1 of them if
\* exactly one of M candidates fails, and the run goes on with the remainder.
C7_FailedCandidateSkipped ==
    (result.state = "returned" /\ RequestsOf("UID FETCH") # {}
        /\ "fetch2" \notin failed) =>
        /\ result.err = "nil"
        /\ result.invoices = ExpectedDocs(sent)
        /\ Cardinality(Pass2Warnings)
               = Cardinality({i \in 1..Len(sent) : FailedResponse(sent[i])})
        /\ \A i \in Pass2Warnings :
               \E j \in 1..Len(sent) :
                   FailedResponse(sent[j]) /\ sent[j].key = warnings[i].uid
        /\ (/\ Len(sent) = Cardinality(Pass2Request.set)
            /\ Cardinality({i \in 1..Len(sent) : FailedResponse(sent[i])}) = 1)
               => Len(result.invoices) = Cardinality(Pass2Request.set) - 1
        /\ pc = "fatal" => "send" \in failed
        /\ (pc # "returned" /\ result.invoices # <<>>) =>
               \/ pc = "processing"
               \/ Len(outcomes) = Len(result.invoices)

\* two candidates, the first response fails, the second yields the document
\* and the run goes on
C7_Witness ==
    /\ pc = "processing"
    /\ Cardinality(Pass2Request.set) = 2
    /\ Len(sent) = 2
    /\ FailedResponse(sent[1])
    /\ ~FailedResponse(sent[2])
    /\ Len(result.invoices) = 1

\* C8: the scan leaves the mailbox as it was: INBOX is selected read-only,
\* every body item is the peeking one, no command other than FETCH, UID FETCH
\* and LOGOUT is sent, and the \Seen flags stay as they were before the run.
C8_MailboxUntouched ==
    /\ seen = seen0
    /\ (RequestsOf("FETCH") \cup RequestsOf("UID FETCH")) # {} => readOnly
    /\ \A i \in 1..Len(requests) :
           /\ "BODY[]" \notin requests[i].items
           /\ requests[i].cmd \in {"FETCH", "UID FETCH", "LOGOUT"}

\* the body of a message that was unread was fetched and turned into a document
C8_Witness ==
    /\ result.state = "returned"
    /\ result.invoices # <<>>
    /\ \E i \in 1..Len(sent) : sent[i].full /\ sent[i].key \notin seen0

(***************************************************************************)
(* Properties of the run (main)                                            *)
(***************************************************************************)
\* invoices in main: what fetchInvoices returned
Invoices == IF result.state = "returned" THEN result.invoices ELSE <<>>
\* the documents main made a PDF of, by their position in invoices
Rendered == {i \in 1..Len(outcomes) : outcomes[i] = "ok"}
\* the position in invoices of the document behind the k-th attachment
ItemOf(k) ==
    CHOOSE i \in Rendered : Cardinality({j \in Rendered : j <= i}) = k
OrderOf(i) == extractOrderNumber(Invoices[i].HTMLBody)
Unnumbered == {k \in 1..Len(attachments) : OrderOf(ItemOf(k)) = <<>>}

DigitChar(k) == CHOOSE c \in Digits : <<c>> = DigitsOf(k)
TwoDigits(m) == <<DigitChar(m \div 10), DigitChar(m % 10)>>
FourDigits(y) ==
    <<DigitChar(y \div 1000), DigitChar((y \div 100) % 10),
      DigitChar((y \div 10) % 10), DigitChar(y % 10)>>
Decimal(i) == IF i < 10 THEN <<DigitChar(i)>> ELSE TwoDigits(i)

\* C14: the attachment of a document with an order number is named
\* MM_YYYY_Rechnung_Apple_<sanitized number>.pdf after the date of its
\* message; without order number it is named after the sanitized subject,
\* followed by _<position> if and only if the run has more than one
\* document, and .pdf.
C14_AttachmentName ==
    /\ Len(attachments) = Cardinality(Rendered)
    /\ \A k \in 1..Len(attachments) :
           LET i == ItemOf(k)
               inv == Invoices[i]
           IN attachments[k].Filename =
                  IF OrderOf(i) # <<>>
                  THEN TwoDigits(inv.Date.month) \o <<"_">> \o FourDigits(inv.Date.year)
                           \o RechnungApple \o sanitizeFilename(OrderOf(i)) \o DotPdf
                  ELSE IF Len(Invoices) > 1
                  THEN sanitizeFilename(inv.Subject) \o <<"_">> \o Decimal(i) \o DotPdf
                  ELSE sanitizeFilename(inv.Subject) \o DotPdf

\* a run of two documents, the first with an order number, the second
\* without
C14_Witness ==
    /\ Len(attachments) = 2
    /\ attachments[1].Filename
           = <<"0", "2", "_", "2", "0", "2", "6">> \o RechnungApple \o <<"W", "1">> \o DotPdf
    /\ attachments[2].Filename = <<"s", "a", "_", "2">> \o DotPdf

\* C15: no two attachments of a run have the same file name.
C15_NamesDistinct ==
    \A k, l \in 1..Len(attachments) :
        k # l => attachments[k].Filename # attachments[l].Filename

\* the statement as written: in a run of several documents the k-th
\* attachment without order number carries the suffix _k
C16_Original ==
    Len(Invoices) > 1 =>
        \A k \in Unnumbered :
            attachments[k].Filename
                = sanitizeFilename(Invoices[ItemOf(k)].Subject) \o <<"_">>
                      \o Decimal(Cardinality({l \in Unnumbered : l <= k})) \o DotPdf

\* C16: in a run of several documents an attachment without order number
\* carries as suffix the position of its document among all documents of
\* the run, so the suffixes grow in processing order; they are 1, 2, ...
\* without gap when no document of the run has an order number or was lost.
C16_SuffixIsPosition ==
    Len(Invoices) > 1 =>
        /\ \A k \in Unnumbered :
               attachments[k].Filename
                   = sanitizeFilename(Invoices[ItemOf(k)].Subject) \o <<"_">>
                         \o Decimal(ItemOf(k)) \o DotPdf
        /\ \A k, l \in Unnumbered : k < l => ItemOf(k) < ItemOf(l)
        /\ (Cardinality(Unnumbered) = Len(outcomes)) =>
               \A k \in Unnumbered : ItemOf(k) = k

\* the PDF of the first of two documents fails, the second has no order
\* number and gets the suffix _2
C16_Witness ==
    /\ Len(Invoices) = 2
    /\ outcomes = <<"converting to PDF", "ok">>
    /\ Len(attachments) = 1
    /\ attachments[1].Filename = <<"s", "a", "_", "2">> \o DotPdf

Ended == pc \in {"exit", "fatal"}

\* C19: sendPDFEmail is called at most once, only after every document was
\* processed, with all attachments of the run, and never without any; a
\* run that ends without failure has called it exactly when it made a PDF.
C19_OneDelivery ==
    /\ Len(mails) <= 1
    /\ mails # <<>> =>
           /\ Ended
           /\ Len(outcomes) = Len(Invoices)
           /\ mails[1] = attachments
           /\ Len(mails[1]) = Cardinality(Rendered)
           /\ mails[1] # <<>>
    /\ (Ended /\ (total = 0 \/ uids = <<>> \/ attachments = <<>>)) => mails = <<>>
    /\ (Ended /\ attachments # <<>>) => Len(mails) = 1

\* one of two documents is lost, the mail goes out once with the other
C19_Witness ==
    /\ pc = "exit"
    /\ Len(outcomes) = 2
    /\ Cardinality(Rendered) = 1
    /\ Len(mails) = 1
    /\ Len(mails[1]) = 1

ScanFailures == {"dial", "login", "select", "fetch1", "fetch2"}

\* C20: the run ends as a failed exit exactly when the configuration, the
\* scan or the delivery failed; and once the scan has failed no document is
\* processed and no mail is sent.
C20_FailedExitIffFailure ==
    /\ Ended => (pc = "fatal" <=> failed # {})
    /\ (failed \cap ScanFailures) # {} =>
           pc # "processing" /\ outcomes = <<>> /\ mails = <<>>

\* the run without the failure of its pass-1 fetch: what C20 says of the
\* other runs
FailedExitIffOtherFailure == "fetch1" \notin failed => C20_FailedExitIffFailure

\* C21: every document is processed on its own: a document whose clean-up or
\* PDF conversion fails is left out, alone, and the loop goes on; every
\* other document yields exactly one attachment, made of that document, and
\* the attachments stand in the order of their documents.
C21_ItemsIndependent ==
    /\ Len(outcomes) <= Len(Invoices)
    /\ Len(attachments) = Cardinality(Rendered)
    /\ \A k \in 1..Len(attachments) :
           /\ attachments[k].Data
                  = cleanHTML(Invoices[ItemOf(k)].HTMLBody, NetDown).html
           /\ attachments[k].Filename
                  = FileName(Invoices[ItemOf(k)], ItemOf(k) - 1, Len(Invoices))
           /\ \A l \in 1..Len(attachments) : k < l => ItemOf(k) < ItemOf(l)
    /\ (Ended /\ Invoices # <<>> /\ result.err = "nil") =>
           Len(outcomes) = Len(Invoices)

\* the clean-up of the first of two documents fails, the second document
\* becomes the only attachment
C21_Witness ==
    /\ Len(Invoices) = 2
    /\ outcomes = <<"cleaning HTML", "ok">>
    /\ Len(attachments) = 1
    /\ attachments[1].Data = cleanHTML(Invoices[2].HTMLBody, NetDown).html

\* the pass-2 responses the loop of fetchBodies has taken from the channel
Consumed == IF pc = "pass2" THEN SubSeq(sent, 1, Len(sent) - Len(messages)) ELSE sent
\* the uids of the messages behind the documents, in the order of the documents
RECURSIVE DocKeys(_)
DocKeys(s) ==
    IF s = <<>> THEN <<>>
    ELSE (IF FailedResponse(Head(s)) THEN <<>> ELSE <<Head(s).key>>)
             \o DocKeys(Tail(s))

\* C24: every document of the scan comes from a message whose uid is a
\* candidate, no two documents come from the same uid, and so there are at
\* most as many documents as candidates, also when the server repeats a
\* response.
C24_DocsWithinCandidates ==
    /\ Len(invoices) = Len(DocKeys(Consumed))
    /\ \A i \in 1..Len(DocKeys(Consumed)) : DocKeys(Consumed)[i] \in UidSetOf(uids)
    /\ \A i, j \in 1..Len(DocKeys(Consumed)) :
           i # j => DocKeys(Consumed)[i] # DocKeys(Consumed)[j]
    /\ Len(invoices) <= Cardinality(UidSetOf(uids))
    /\ Len(Invoices) <= Cardinality(UidSetOf(uids))

====
